---- MODULE Spec2Model ----
(***************************************************************************)
(* claude-profiles (ccp): named JSON settings profiles kept under          *)
(* ~/.claude.  Two parts are modelled:                                     *)
(*   - the path-value engine of src/src/profile.rs (get_value, set_value,  *)
(*     unset_value over a serde_json::Value), specification EngineSpec;    *)
(*   - the commands of src/src/commands.rs acting on the files of          *)
(*     src/src/config.rs, specification Spec.                              *)
(***************************************************************************)
EXTENDS Integers, Sequences, FiniteSets, TLC

VARIABLES
    doc,      \* engine: the document behind `data: &mut Value`
    doc0,     \* engine: the document as it was when the call started
    key,      \* engine: the `key: &str` of the call, a sequence of characters
    value,    \* engine: the `value: Value` handed to set_value
    call,     \* engine: "none", "get", "set", "unset", then "set_get"/"unset_get"
    ret,      \* engine: what the call returned
    got,      \* engine: what a get_value of the same key returned after the call
    profiles_dir,  \* files: ~/.claude/profiles exists
    backups_dir,   \* files: ~/.claude/backups exists
    profiles,      \* files: profiles/<name>.json, name -> the JSON value in the file
    backups,       \* files: backups/<name>.json, name -> the JSON value in the file
    settings,      \* files: settings.json, None when there is no file
    current_file,  \* files: profiles/.current, None or Some(text of the file)
    now,           \* the wall clock, in seconds
    steps,         \* the number of commands run so far
    cmd,           \* the last command and its arguments
    res,           \* the Result the last command returned
    procs          \* race: per concurrent `ccp use`, its position, name and data

engineVars == <<doc, doc0, key, value, call, ret, got>>

fsVars == <<profiles_dir, backups_dir, profiles, backups, settings, current_file>>

cmdVars == <<fsVars, now, steps, cmd, res>>

vars == <<engineVars, cmdVars, procs>>

(***************************************************************************)
(* serde_json::Value.  Objects are maps from key strings to values; every  *)
(* other kind (null, string, ...) is a non-object as far as the engine is  *)
(* concerned.  A key string is a sequence of characters; an object key is  *)
(* one dot-free segment of it.                                             *)
(***************************************************************************)
Null == [t |-> "null"]

Str(s) == [t |-> "str", s |-> s]

Obj(m) == [t |-> "obj", m |-> m]

EmptyMap == [k \in {} |-> Null]

IsObject(v) == v.t = "obj"

\* Map::contains_key
ContainsKey(m, k) == k \in DOMAIN m

\* Map::insert: adds the key or replaces its value
Insert(m, k, v) == [x \in (DOMAIN m) \cup {k} |-> IF x = k THEN v ELSE m[x]]

\* Map::remove
Remove(m, k) == [x \in (DOMAIN m) \ {k} |-> m[x]]

\* Option<Value>
None == [some |-> FALSE]

Some(v) == [some |-> TRUE, v |-> v]

\* Result<T>: Ok(v) or an anyhow error carrying the message of its bail!
Ok(v) == [ok |-> TRUE, v |-> v]

Err(msg) == [ok |-> FALSE, msg |-> msg]

Unit == "()"

(***************************************************************************)
(* key.split('.'): the segments between the dots.  There is always at      *)
(* least one segment; an empty key gives one empty segment, and a leading, *)
(* trailing or doubled dot gives an empty segment.                         *)
(***************************************************************************)
RECURSIVE Split(_)
Split(s) ==
    IF s = <<>> THEN << <<>> >>
    ELSE LET rest == Split(Tail(s))
         IN  IF Head(s) = "."
             THEN << <<>> >> \o rest
             ELSE << <<Head(s)>> \o Head(rest) >> \o Tail(rest)

\* GetLoop, but a stored null counts as not found
RECURSIVE GetLoop_NullIsNone(_, _, _)
GetLoop_NullIsNone(current, parts, i) ==
    IF i > Len(parts) THEN (IF current = Null THEN None ELSE Some(current))
    ELSE IF IsObject(current)
         THEN IF ContainsKey(current.m, parts[i])
              THEN GetLoop_NullIsNone(current.m[parts[i]], parts, i + 1)
              ELSE None
         ELSE None

(***************************************************************************)
(* get_value: the loop over the parts, `current` being the node reached.   *)
(***************************************************************************)
RECURSIVE GetLoop(_, _, _)
GetLoop(current, parts, i) ==
    IF i > Len(parts) THEN Some(current)
    ELSE IF IsObject(current)
         THEN IF ContainsKey(current.m, parts[i])
              THEN GetLoop(current.m[parts[i]], parts, i + 1)
              ELSE None
         ELSE None

get_value(data, k) == GetLoop(data, Split(k), 1)

\* SetLoop, but the last part keeps a value that is already there
RECURSIVE SetLoop_KeepOld(_, _, _, _)
SetLoop_KeepOld(current, parts, i, v) ==
    IF i = Len(parts)
    THEN IF IsObject(current)
         THEN [res |-> Ok(Unit),
               node |-> IF ContainsKey(current.m, parts[i]) THEN current
                        ELSE Obj(Insert(current.m, parts[i], v))]
         ELSE [res |-> Err("Cannot set value: path is not an object"), node |-> current]
    ELSE IF IsObject(current)
         THEN LET m1 == IF ~ContainsKey(current.m, parts[i])
                        THEN Insert(current.m, parts[i], Obj(EmptyMap))
                        ELSE current.m
                  r  == SetLoop_KeepOld(m1[parts[i]], parts, i + 1, v)
              IN  [res |-> r.res, node |-> Obj(Insert(m1, parts[i], r.node))]
         ELSE [res |-> Err("Cannot navigate: path is not an object"), node |-> current]

\* SetLoop, but an intermediate key that holds a non-object gets an object too
RECURSIVE SetLoop_Coerce(_, _, _, _)
SetLoop_Coerce(current, parts, i, v) ==
    IF i = Len(parts)
    THEN IF IsObject(current)
         THEN [res |-> Ok(Unit), node |-> Obj(Insert(current.m, parts[i], v))]
         ELSE [res |-> Err("Cannot set value: path is not an object"), node |-> current]
    ELSE IF IsObject(current)
         THEN LET m1 == IF ~ContainsKey(current.m, parts[i])
                           \/ ~IsObject(current.m[parts[i]])
                        THEN Insert(current.m, parts[i], Obj(EmptyMap))
                        ELSE current.m
                  r  == SetLoop_Coerce(m1[parts[i]], parts, i + 1, v)
              IN  [res |-> r.res, node |-> Obj(Insert(m1, parts[i], r.node))]
         ELSE [res |-> Err("Cannot navigate: path is not an object"), node |-> current]

\* SetLoop, but every intermediate key gets a new object, present or not
RECURSIVE SetLoop_AlwaysCreate(_, _, _, _)
SetLoop_AlwaysCreate(current, parts, i, v) ==
    IF i = Len(parts)
    THEN IF IsObject(current)
         THEN [res |-> Ok(Unit), node |-> Obj(Insert(current.m, parts[i], v))]
         ELSE [res |-> Err("Cannot set value: path is not an object"), node |-> current]
    ELSE IF IsObject(current)
         THEN LET m1 == Insert(current.m, parts[i], Obj(EmptyMap))
                  r  == SetLoop_AlwaysCreate(m1[parts[i]], parts, i + 1, v)
              IN  [res |-> r.res, node |-> Obj(Insert(m1, parts[i], r.node))]
         ELSE [res |-> Err("Cannot navigate: path is not an object"), node |-> current]

\* SetLoop, but a missing intermediate key gets null in place of an object
RECURSIVE SetLoop_CreateNull(_, _, _, _)
SetLoop_CreateNull(current, parts, i, v) ==
    IF i = Len(parts)
    THEN IF IsObject(current)
         THEN [res |-> Ok(Unit), node |-> Obj(Insert(current.m, parts[i], v))]
         ELSE [res |-> Err("Cannot set value: path is not an object"), node |-> current]
    ELSE IF IsObject(current)
         THEN LET m1 == IF ~ContainsKey(current.m, parts[i])
                        THEN Insert(current.m, parts[i], Null)
                        ELSE current.m
                  r  == SetLoop_CreateNull(m1[parts[i]], parts, i + 1, v)
              IN  [res |-> r.res, node |-> Obj(Insert(m1, parts[i], r.node))]
         ELSE [res |-> Err("Cannot navigate: path is not an object"), node |-> current]

(***************************************************************************)
(* set_value: the loop over the parts.  The walk mutates in place, so the  *)
(* result carries the node as the walk leaves it, also when it fails: an   *)
(* object inserted for a missing intermediate key is not taken back.       *)
(***************************************************************************)
RECURSIVE SetLoop(_, _, _, _)
SetLoop(current, parts, i, v) ==
    IF i = Len(parts)
    THEN IF IsObject(current)
         THEN [res |-> Ok(Unit), node |-> Obj(Insert(current.m, parts[i], v))]
         ELSE [res |-> Err("Cannot set value: path is not an object"), node |-> current]
    ELSE IF IsObject(current)
         THEN LET m1 == IF ~ContainsKey(current.m, parts[i])
                        THEN Insert(current.m, parts[i], Obj(EmptyMap))
                        ELSE current.m
                  r  == SetLoop(m1[parts[i]], parts, i + 1, v)
              IN  [res |-> r.res, node |-> Obj(Insert(m1, parts[i], r.node))]
         ELSE [res |-> Err("Cannot navigate: path is not an object"), node |-> current]

set_value(data, k, v) == SetLoop(data, Split(k), 1, v)

\* UnsetLoop, but a missing intermediate key gets an object, as in set_value
RECURSIVE UnsetLoop_Create(_, _, _)
UnsetLoop_Create(current, parts, i) ==
    IF i = Len(parts)
    THEN IF IsObject(current)
         THEN [res |-> Ok(ContainsKey(current.m, parts[i])),
               node |-> Obj(Remove(current.m, parts[i]))]
         ELSE [res |-> Ok(FALSE), node |-> current]
    ELSE IF IsObject(current)
         THEN LET m1 == IF ~ContainsKey(current.m, parts[i])
                        THEN Insert(current.m, parts[i], Obj(EmptyMap))
                        ELSE current.m
                  r  == UnsetLoop_Create(m1[parts[i]], parts, i + 1)
              IN  [res |-> r.res, node |-> Obj(Insert(m1, parts[i], r.node))]
         ELSE [res |-> Ok(FALSE), node |-> current]

\* UnsetLoop, but the key is looked up and reported without being removed
RECURSIVE UnsetLoop_NoRemove(_, _, _)
UnsetLoop_NoRemove(current, parts, i) ==
    IF i = Len(parts)
    THEN IF IsObject(current)
         THEN [res |-> Ok(ContainsKey(current.m, parts[i])), node |-> current]
         ELSE [res |-> Ok(FALSE), node |-> current]
    ELSE IF IsObject(current)
         THEN IF ContainsKey(current.m, parts[i])
              THEN LET r == UnsetLoop_NoRemove(current.m[parts[i]], parts, i + 1)
                   IN  [res |-> r.res, node |-> Obj(Insert(current.m, parts[i], r.node))]
              ELSE [res |-> Ok(FALSE), node |-> current]
         ELSE [res |-> Ok(FALSE), node |-> current]

(***************************************************************************)
(* unset_value: the loop over the parts; follows existing structure only.  *)
(***************************************************************************)
RECURSIVE UnsetLoop(_, _, _)
UnsetLoop(current, parts, i) ==
    IF i = Len(parts)
    THEN IF IsObject(current)
         THEN [res |-> Ok(ContainsKey(current.m, parts[i])),
               node |-> Obj(Remove(current.m, parts[i]))]
         ELSE [res |-> Ok(FALSE), node |-> current]
    ELSE IF IsObject(current)
         THEN IF ContainsKey(current.m, parts[i])
              THEN LET r == UnsetLoop(current.m[parts[i]], parts, i + 1)
                   IN  [res |-> r.res, node |-> Obj(Insert(current.m, parts[i], r.node))]
              ELSE [res |-> Ok(FALSE), node |-> current]
         ELSE [res |-> Ok(FALSE), node |-> current]

unset_value(data, k) == UnsetLoop(data, Split(k), 1)

(***************************************************************************)
(* Inputs of the engine: key strings up to MaxKeyLen characters, and       *)
(* documents of up to MaxNodes nodes.                                      *)
(***************************************************************************)
MaxKeyLen == 3

MaxNodes == 4

Chars == {"a", "b", "."}

Keys == UNION {[1..n -> Chars] : n \in 0..MaxKeyLen}

DocKeys == {<<"a">>, <<>>}

Leaves == {Null, Str("x")}

Values == {Null, Str("y"), Obj(EmptyMap)}

\* ObjsOfSize[n]: the objects of exactly n nodes (the object itself counts)
ObjsOfSize[n \in 1..MaxNodes] ==
    IF n = 1 THEN {Obj(EmptyMap)}
    ELSE UNION {
           {Obj(Insert(o.m, k, v)) :
                o \in {p \in ObjsOfSize[n - j] : k \notin DOMAIN p.m},
                v \in (IF j = 1 THEN Leaves ELSE {}) \cup ObjsOfSize[j]}
           : j \in 1..(n - 1), k \in DocKeys }

Docs == Leaves \cup UNION {ObjsOfSize[n] : n \in 1..MaxNodes}

(***************************************************************************)
(* The files of Config (src/src/config.rs).  A JSON file is modelled by    *)
(* the value its text parses to; the pointer file by its text, a sequence  *)
(* of tokens that are either a run of non-blank characters or one          *)
(* whitespace character.                                                   *)
(***************************************************************************)
FS == [profiles_dir |-> profiles_dir, backups_dir |-> backups_dir,
       profiles |-> profiles, backups |-> backups,
       settings |-> settings, current |-> current_file]

\* fs::write of <dir>/<name>.json
WriteFile(files, name, data) ==
    [x \in (DOMAIN files) \cup {name} |-> IF x = name THEN data ELSE files[x]]

\* fs::remove_file of <dir>/<name>.json
RemoveFile(files, name) == [x \in (DOMAIN files) \ {name} |-> files[x]]

Whitespace == {" ", "\n"}

\* str::trim: drops leading and trailing whitespace
RECURSIVE TrimStart(_)
TrimStart(text) ==
    IF text # <<>> /\ Head(text) \in Whitespace THEN TrimStart(Tail(text)) ELSE text

RECURSIVE TrimEnd(_)
TrimEnd(text) ==
    IF text # <<>> /\ text[Len(text)] \in Whitespace
    THEN TrimEnd(SubSeq(text, 1, Len(text) - 1))
    ELSE text

Trim(text) == TrimEnd(TrimStart(text))

\* the String made of the tokens of a text
RECURSIVE ToStr(_)
ToStr(text) == IF text = <<>> THEN "" ELSE Head(text) \o ToStr(Tail(text))

ensure_dirs(f) == [f EXCEPT !.profiles_dir = TRUE, !.backups_dir = TRUE]

\* the names a profile can have, in the order sort() puts them
SortedNames == <<"default", "other", "work">>

Names == {SortedNames[i] : i \in 1..Len(SortedNames)}

profile_exists(f, name) == f.profiles_dir /\ name \in DOMAIN f.profiles

backup_exists(f, name) == f.backups_dir /\ name \in DOMAIN f.backups

\* fs::read_dir of the profiles directory: one entry per profile file, and
\* the pointer file .current, whose name has no extension
read_dir(f) ==
    {[stem |-> n, ext |-> Some("json")] : n \in DOMAIN f.profiles}
        \cup (IF f.current.some THEN {[stem |-> ".current", ext |-> None]} ELSE {})

\* the order of String: '.' sorts before every letter
StringOrder == <<".current">> \o SortedNames

Rank(n) == CHOOSE i \in 1..Len(StringOrder) : StringOrder[i] = n

\* Vec::sort of the strings pushed: ascending
RECURSIVE Sort(_)
Sort(S) ==
    IF S = {} THEN <<>>
    ELSE LET least == CHOOSE x \in S : \A y \in S : Rank(x) <= Rank(y)
         IN  <<least>> \o Sort(S \ {least})

\* list_profiles, but without the test of the extension
list_profiles_NoFilter(f) ==
    IF f.profiles_dir
    THEN Sort({e.stem : e \in read_dir(f)})
    ELSE <<>>

list_profiles(f) ==
    IF f.profiles_dir
    THEN Sort({e.stem : e \in {d \in read_dir(f) : d.ext = Some("json")}})
    ELSE <<>>

get_current_profile(f) ==
    IF f.current.some THEN Some(ToStr(Trim(f.current.v))) ELSE None

set_current_profile(f, name) == [f EXCEPT !.current = Some(<<name>>)]

load_profile(f, name) == f.profiles[name]

save_profile(f, name, data) == [f EXCEPT !.profiles = WriteFile(@, name, data)]

delete_profile(f, name) == [f EXCEPT !.profiles = RemoveFile(@, name)]

load_settings(f) == f.settings.v

\* save_settings, but an existing settings.json is kept: the first write wins
save_settings_KeepExisting(f, data) ==
    IF f.settings.some THEN f ELSE [f EXCEPT !.settings = Some(data)]

save_settings(f, data) == [f EXCEPT !.settings = Some(data)]

\* the content of a file that is not valid JSON
NotJson == [t |-> "not json"]

\* serde_json::from_str of the content read
load_json(content) ==
    IF content = NotJson THEN Err("Failed to parse JSON from {}") ELSE Ok(content)

load_backup(f, name) == load_json(f.backups[name])

save_backup(f, name, data) == [f EXCEPT !.backups = WriteFile(@, name, data)]

(***************************************************************************)
(* The commands of src/src/commands.rs, each as a function from the files  *)
(* it finds to the files it leaves and the Result it returns.              *)
(***************************************************************************)
Return(f, r) == [fs |-> f, res |-> r]

SchemaDoc ==
    Obj([k \in {<<"$schema">>} |->
            Str("https://json.schemastore.org/claude-code-settings.json")])

init(f) ==
    LET f1 == ensure_dirs(f)
    IN  IF f1.settings.some /\ list_profiles(f1) = <<>>
        THEN Return(set_current_profile(
                        save_profile(f1, "default", load_settings(f1)), "default"),
                    Ok(Unit))
        ELSE IF ~f1.settings.some
        THEN Return(set_current_profile(
                        save_profile(save_settings(f1, SchemaDoc), "default", SchemaDoc),
                        "default"),
                    Ok(Unit))
        ELSE Return(f1, Ok(Unit))

\* use_profile, but the pointer is not written
use_profile_NoPointer(f, name) ==
    IF ~profile_exists(f, name)
    THEN Return(f, Err("Profile '{}' does not exist. Use 'ccp list' to see available profiles."))
    ELSE Return(save_settings(f, load_profile(f, name)), Ok(Unit))

\* use_profile, but the pointer is written before the profile is looked up
use_profile_PointerFirst(f, name) ==
    IF ~profile_exists(f, name)
    THEN Return(set_current_profile(f, name),
                Err("Profile '{}' does not exist. Use 'ccp list' to see available profiles."))
    ELSE Return(set_current_profile(save_settings(f, load_profile(f, name)), name),
                Ok(Unit))

use_profile(f, name) ==
    IF ~profile_exists(f, name)
    THEN Return(f, Err("Profile '{}' does not exist. Use 'ccp list' to see available profiles."))
    ELSE Return(set_current_profile(save_settings(f, load_profile(f, name)), name),
                Ok(Unit))

\* create, but without the check that the name is free
create_Overwrite(f, name, from) ==
    LET f1 == ensure_dirs(f)
    IN  IF from.some /\ ~profile_exists(f1, from.v)
        THEN Return(f1, Err("Source profile '{}' does not exist"))
        ELSE LET data == IF from.some THEN load_profile(f1, from.v)
                         ELSE IF f1.settings.some THEN load_settings(f1)
                         ELSE SchemaDoc
             IN  Return(save_profile(f1, name, data), Ok(Unit))

\* create, but a profile without a source is always the "$schema" object
create_IgnoreSettings(f, name, from) ==
    LET f1 == ensure_dirs(f)
    IN  IF profile_exists(f1, name)
        THEN Return(f1, Err("Profile '{}' already exists"))
        ELSE IF from.some /\ ~profile_exists(f1, from.v)
        THEN Return(f1, Err("Source profile '{}' does not exist"))
        ELSE LET data == IF from.some THEN load_profile(f1, from.v)
                         ELSE SchemaDoc
             IN  Return(save_profile(f1, name, data), Ok(Unit))

\* from is None or Some(source)
create(f, name, from) ==
    LET f1 == ensure_dirs(f)
    IN  IF profile_exists(f1, name)
        THEN Return(f1, Err("Profile '{}' already exists"))
        ELSE IF from.some /\ ~profile_exists(f1, from.v)
        THEN Return(f1, Err("Source profile '{}' does not exist"))
        ELSE LET data == IF from.some THEN load_profile(f1, from.v)
                         ELSE IF f1.settings.some THEN load_settings(f1)
                         ELSE SchemaDoc
             IN  Return(save_profile(f1, name, data), Ok(Unit))

\* confirm is the answer to the prompt, asked only without --force
\* delete, but the pointer file is removed with the profile it names when
\* there is no switch to "default"
delete_ClearPointer(f, name, force, confirm) ==
    IF ~profile_exists(f, name)
    THEN Return(f, Err("Profile '{}' does not exist"))
    ELSE IF name = "default" /\ ~force
    THEN Return(f, Err("Cannot delete 'default' profile. Use --force to override."))
    ELSE IF ~force /\ ~confirm
    THEN Return(f, Ok(Unit))
    ELSE LET cur == get_current_profile(f)
             f1  == IF cur.some /\ cur.v = name
                    THEN IF profile_exists(f, "default") /\ name # "default"
                         THEN use_profile(f, "default").fs
                         ELSE [f EXCEPT !.current = None]
                    ELSE f
         IN  Return(delete_profile(f1, name), Ok(Unit))

\* delete, but without the switch to "default"
delete_NoSwitch(f, name, force, confirm) ==
    IF ~profile_exists(f, name)
    THEN Return(f, Err("Profile '{}' does not exist"))
    ELSE IF name = "default" /\ ~force
    THEN Return(f, Err("Cannot delete 'default' profile. Use --force to override."))
    ELSE IF ~force /\ ~confirm
    THEN Return(f, Ok(Unit))
    ELSE Return(delete_profile(f, name), Ok(Unit))

delete(f, name, force, confirm) ==
    IF ~profile_exists(f, name)
    THEN Return(f, Err("Profile '{}' does not exist"))
    ELSE IF name = "default" /\ ~force
    THEN Return(f, Err("Cannot delete 'default' profile. Use --force to override."))
    ELSE IF ~force /\ ~confirm
    THEN Return(f, Ok(Unit))
    ELSE LET cur == get_current_profile(f)
             f1  == IF cur.some /\ cur.v = name
                       /\ profile_exists(f, "default") /\ name # "default"
                    THEN use_profile(f, "default").fs
                    ELSE f
         IN  Return(delete_profile(f1, name), Ok(Unit))

\* copy, but the source file is removed after the destination is written
copy_Move(f, src, dst) ==
    IF ~profile_exists(f, src)
    THEN Return(f, Err("Source profile '{}' does not exist"))
    ELSE IF profile_exists(f, dst)
    THEN Return(f, Err("Destination profile '{}' already exists"))
    ELSE Return(delete_profile(save_profile(f, dst, load_profile(f, src)), src),
                Ok(Unit))

copy(f, src, dst) ==
    IF ~profile_exists(f, src)
    THEN Return(f, Err("Source profile '{}' does not exist"))
    ELSE IF profile_exists(f, dst)
    THEN Return(f, Err("Destination profile '{}' already exists"))
    ELSE Return(save_profile(f, dst, load_profile(f, src)), Ok(Unit))

\* rename, but the pointer is left as it was
rename_KeepPointer(f, old, new) ==
    IF ~profile_exists(f, old)
    THEN Return(f, Err("Profile '{}' does not exist"))
    ELSE IF profile_exists(f, new)
    THEN Return(f, Err("Profile '{}' already exists"))
    ELSE Return(delete_profile(save_profile(f, new, load_profile(f, old)), old),
                Ok(Unit))

rename(f, old, new) ==
    IF ~profile_exists(f, old)
    THEN Return(f, Err("Profile '{}' does not exist"))
    ELSE IF profile_exists(f, new)
    THEN Return(f, Err("Profile '{}' already exists"))
    ELSE LET f1  == delete_profile(save_profile(f, new, load_profile(f, old)), old)
             cur == get_current_profile(f1)
         IN  IF cur.some /\ cur.v = old
             THEN Return(set_current_profile(f1, new), Ok(Unit))
             ELSE Return(f1, Ok(Unit))

\* the profile a command works on: --profile, else the current one, else "default"
profile_name(f, profile) ==
    IF profile.some THEN profile.v
    ELSE IF get_current_profile(f).some THEN get_current_profile(f).v
    ELSE "default"

\* serde_json::from_str of a command-line value, else the value as a string
ParseValue(text) ==
    CASE text = "null" -> Null
      [] text = "{}"   -> Obj(EmptyMap)
      [] OTHER         -> Str(text)

\* set, but settings.json is rewritten whichever profile is the target
set_AlwaysApply(f, k, text, profile) ==
    LET name == profile_name(f, profile)
    IN  IF ~profile_exists(f, name)
        THEN Return(f, Err("Profile '{}' does not exist"))
        ELSE LET r == set_value(load_profile(f, name), k, ParseValue(text))
             IN  IF ~r.res.ok THEN Return(f, r.res)
                 ELSE Return(save_settings(save_profile(f, name, r.node), r.node),
                             Ok(Unit))

set(f, k, text, profile) ==
    LET name == profile_name(f, profile)
    IN  IF ~profile_exists(f, name)
        THEN Return(f, Err("Profile '{}' does not exist"))
        ELSE LET r == set_value(load_profile(f, name), k, ParseValue(text))
             IN  IF ~r.res.ok THEN Return(f, r.res)
                 ELSE LET f1 == save_profile(f, name, r.node)
                      IN  IF Some(name) = get_current_profile(f1)
                          THEN Return(save_settings(f1, r.node), Ok(Unit))
                          ELSE Return(f1, Ok(Unit))

\* the value is printed, or "(not set)"; the files are only read
get(f, k, profile) ==
    LET name == profile_name(f, profile)
    IN  IF ~profile_exists(f, name)
        THEN Return(f, Err("Profile '{}' does not exist"))
        ELSE Return(f, Ok(Unit))

unset(f, k, profile) ==
    LET name == profile_name(f, profile)
    IN  IF ~profile_exists(f, name)
        THEN Return(f, Err("Profile '{}' does not exist"))
        ELSE LET r == unset_value(load_profile(f, name), k)
             IN  IF r.res.v
                 THEN LET f1 == save_profile(f, name, r.node)
                      IN  IF Some(name) = get_current_profile(f1)
                          THEN Return(save_settings(f1, r.node), Ok(Unit))
                          ELSE Return(f1, Ok(Unit))
                 ELSE Return(f, Ok(Unit))

\* serde_json::from_str of the text read from stdin
ParseStdin(text) ==
    CASE text = "{\"model\": \"opus-4\"}" ->
            Ok(Obj([k \in {<<"model">>} |-> Str("opus-4")]))
      [] OTHER -> Err("Failed to parse JSON from stdin")

import(f, name, input) ==
    LET f1 == ensure_dirs(f)
    IN  IF profile_exists(f1, name)
        THEN Return(f1, Err("Profile '{}' already exists. Delete it first or use a different name."))
        ELSE IF ~ParseStdin(input).ok
        THEN Return(f1, ParseStdin(input))
        ELSE Return(save_profile(f1, name, ParseStdin(input).v), Ok(Unit))

\* Local::now().format("<prefix>-%Y%m%d-%H%M%S"): one name per second
FormatTime(prefix, t) == prefix \o "-" \o ToString(t)

\* name is None or Some(custom name)
backup(f, name, t) ==
    LET f1 == ensure_dirs(f)
    IN  IF ~f1.settings.some
        THEN Return(f1, Err("No settings.json found to backup"))
        ELSE LET backup_name == IF name.some THEN name.v ELSE FormatTime("backup", t)
             IN  Return(save_backup(f1, backup_name, load_settings(f1)), Ok(Unit))

list_backups_empty(f) == ~f.backups_dir \/ DOMAIN f.backups = {}

\* restore, but the backup restored from is removed afterwards
restore_ConsumesBackup(f, name, t) ==
    IF ~backup_exists(f, name) /\ ~profile_exists(f, name)
    THEN IF list_backups_empty(f)
         THEN Return(f, Err("Backup '{}' not found and no backups available"))
         ELSE Return(f, Err("Backup '{}' not found"))
    ELSE LET data == IF backup_exists(f, name) THEN load_backup(f, name)
                     ELSE Ok(load_profile(f, name))
             f1   == IF f.settings.some
                     THEN save_backup(f, FormatTime("pre-restore", t), load_settings(f))
                     ELSE f
             f2   == [f1 EXCEPT !.backups = RemoveFile(@, name)]
         IN  IF ~data.ok THEN Return(f, data)
             ELSE Return(save_settings(f2, data.v), Ok(Unit))

\* restore, but a profile of the name is taken before a backup of the name
restore_PreferProfile(f, name, t) ==
    IF ~backup_exists(f, name) /\ ~profile_exists(f, name)
    THEN IF list_backups_empty(f)
         THEN Return(f, Err("Backup '{}' not found and no backups available"))
         ELSE Return(f, Err("Backup '{}' not found"))
    ELSE LET data == IF profile_exists(f, name) THEN Ok(load_profile(f, name))
                     ELSE load_backup(f, name)
             f1   == IF f.settings.some
                     THEN save_backup(f, FormatTime("pre-restore", t), load_settings(f))
                     ELSE f
         IN  IF ~data.ok THEN Return(f, data)
             ELSE Return(save_settings(f1, data.v), Ok(Unit))

\* restore, but the snapshot of the settings is written before the data is
\* loaded
restore_SnapshotFirst(f, name, t) ==
    IF ~backup_exists(f, name) /\ ~profile_exists(f, name)
    THEN IF list_backups_empty(f)
         THEN Return(f, Err("Backup '{}' not found and no backups available"))
         ELSE Return(f, Err("Backup '{}' not found"))
    ELSE LET f1   == IF f.settings.some
                     THEN save_backup(f, FormatTime("pre-restore", t), load_settings(f))
                     ELSE f
             data == IF backup_exists(f1, name) THEN load_backup(f1, name)
                     ELSE Ok(load_profile(f1, name))
         IN  IF ~data.ok THEN Return(f1, data)
             ELSE Return(save_settings(f1, data.v), Ok(Unit))

restore(f, name, t) ==
    IF ~backup_exists(f, name) /\ ~profile_exists(f, name)
    THEN IF list_backups_empty(f)
         THEN Return(f, Err("Backup '{}' not found and no backups available"))
         ELSE Return(f, Err("Backup '{}' not found"))
    ELSE LET data == IF backup_exists(f, name) THEN load_backup(f, name)
                     ELSE Ok(load_profile(f, name))
         IN  IF ~data.ok THEN Return(f, data)
             ELSE IF f.settings.some
             THEN IF ~f.backups_dir
                  THEN Return(f, Err("Failed to write {}"))
                  ELSE LET auto_backup == FormatTime("pre-restore", t)
                           f1 == save_backup(f, auto_backup, load_settings(f))
                       IN  Return(save_settings(f1, data.v), Ok(Unit))
             ELSE Return(save_settings(f, data.v), Ok(Unit))

(***************************************************************************)
(* The commands as a state machine: each step runs one command of          *)
(* src/src/main.rs to completion on the files; the clock moves between     *)
(* commands.                                                               *)
(***************************************************************************)
MaxSteps == 3

MaxTime == 1

EmptyFiles == [n \in {} |-> Null]

Sonnet == Obj([k \in {<<"model">>} |-> Str("sonnet-4")])

Haiku == Obj([k \in {<<"model">>} |-> Str("haiku-3")])

Modified == Obj([k \in {<<"model">>} |-> Str("modified")])

\* the profile names given on the command line
ArgNames == {"default", "work"}

\* the key and value arguments given to set and unset
CmdKeys == {<<"model">>, <<"model", ".", "id">>}

CmdValues == {"opus-4"}

Stdin == {"{\"model\": \"opus-4\"}", "not json"}

\* the custom names given to backup, and the names given to restore
BackupNames == {"work", "default"}

\* the backups of the populated home: one file, whose content is not valid
\* JSON
BrokenFiles == [n \in {"broken"} |-> NotJson]

RestoreNames ==
    ArgNames \cup BackupNames \cup DOMAIN BrokenFiles
        \cup {FormatTime("backup", 0), FormatTime("pre-restore", 0)}

Option(S) == {None} \cup {Some(x) : x \in S}

\* a home directory before the first run, or one as tests/integration_test.rs
\* sets it up: profiles default and other, and a pointer file that names
\* default and ends with a newline
Init ==
    /\ \/ /\ profiles_dir = FALSE /\ backups_dir = FALSE
          /\ profiles = EmptyFiles
          /\ current_file = None
          /\ backups = EmptyFiles
       \/ /\ profiles_dir = TRUE /\ backups_dir = TRUE
          /\ profiles = [n \in {"default", "other"} |->
                             IF n = "default" THEN Sonnet ELSE Haiku]
          /\ current_file = Some(<<"default", "\n">>)
          /\ backups = BrokenFiles
    /\ settings \in {None, Some(Modified)}
    /\ now = 0
    /\ steps = 0
    /\ cmd = [op |-> "none"]
    /\ res = Ok(Unit)
    /\ doc = Null /\ doc0 = Null /\ key = <<>> /\ value = Null
    /\ call = "none" /\ ret = None /\ got = None
    /\ procs = <<>>

\* one command has run: c is the command line, r what the command returned
Run(c, r) ==
    /\ steps < MaxSteps
    /\ steps' = steps + 1
    /\ cmd' = c
    /\ res' = r.res
    /\ profiles_dir' = r.fs.profiles_dir
    /\ backups_dir' = r.fs.backups_dir
    /\ profiles' = r.fs.profiles
    /\ backups' = r.fs.backups
    /\ settings' = r.fs.settings
    /\ current_file' = r.fs.current
    /\ UNCHANGED <<now, engineVars, procs>>

CmdInit == Run([op |-> "init"], init(FS))

CmdUse(name) == Run([op |-> "use", name |-> name], use_profile(FS, name))

CmdCreate(name, from) ==
    Run([op |-> "create", name |-> name, from |-> from], create(FS, name, from))

CmdDelete(name, force, confirm) ==
    Run([op |-> "delete", name |-> name, force |-> force, confirm |-> confirm],
        delete(FS, name, force, confirm))

CmdCopy(src, dst) == Run([op |-> "copy", src |-> src, dst |-> dst], copy(FS, src, dst))

CmdRename(old, new) ==
    Run([op |-> "rename", old |-> old, new |-> new], rename(FS, old, new))

CmdSet(k, text, profile) ==
    Run([op |-> "set", key |-> k, value |-> text, profile |-> profile],
        set(FS, k, text, profile))

CmdGet(k, profile) ==
    Run([op |-> "get", key |-> k, profile |-> profile], get(FS, k, profile))

CmdUnset(k, profile) ==
    Run([op |-> "unset", key |-> k, profile |-> profile], unset(FS, k, profile))

CmdImport(name, input) ==
    Run([op |-> "import", name |-> name, input |-> input], import(FS, name, input))

CmdBackup(name) == Run([op |-> "backup", name |-> name], backup(FS, name, now))

CmdRestore(name) == Run([op |-> "restore", backup |-> name], restore(FS, name, now))

\* a second passes
Tick ==
    /\ now < MaxTime
    /\ now' = now + 1
    /\ UNCHANGED <<fsVars, steps, cmd, res, engineVars, procs>>

Next ==
    \/ CmdInit
    \/ \E name \in ArgNames : CmdUse(name)
    \/ \E name \in ArgNames, from \in Option(ArgNames) : CmdCreate(name, from)
    \/ \E name \in ArgNames, force \in BOOLEAN, confirm \in BOOLEAN :
          (force => ~confirm) /\ CmdDelete(name, force, confirm)
    \/ \E src \in ArgNames, dst \in ArgNames : CmdCopy(src, dst)
    \/ \E old \in ArgNames, new \in ArgNames : CmdRename(old, new)
    \/ \E k \in CmdKeys, text \in CmdValues, profile \in Option(ArgNames) :
          CmdSet(k, text, profile)
    \/ \E k \in CmdKeys, profile \in Option(ArgNames) : CmdGet(k, profile)
    \/ \E k \in CmdKeys, profile \in Option(ArgNames) : CmdUnset(k, profile)
    \/ \E name \in ArgNames, input \in Stdin : CmdImport(name, input)
    \/ \E name \in Option(BackupNames) : CmdBackup(name)
    \/ \E name \in RestoreNames : CmdRestore(name)
    \/ Tick

Spec == Init /\ [][Next]_vars

(***************************************************************************)
(* The engine as a state machine: one call on a document, then a           *)
(* get_value of the same key on the document the call left behind.         *)
(***************************************************************************)
EngineInit ==
    /\ doc \in Docs
    /\ doc0 = doc
    /\ key = <<>>
    /\ value = Null
    /\ call = "none"
    /\ ret = None
    /\ got = None
    /\ profiles_dir = FALSE /\ backups_dir = FALSE
    /\ profiles = EmptyFiles /\ backups = EmptyFiles
    /\ settings = None /\ current_file = None
    /\ now = 0 /\ steps = 0
    /\ cmd = [op |-> "none"] /\ res = Ok(Unit)
    /\ procs = <<>>

CallGetValue(k) ==
    /\ call = "none"
    /\ call' = "get"
    /\ key' = k
    /\ ret' = get_value(doc, k)
    /\ UNCHANGED <<doc, doc0, value, got, cmdVars, procs>>

CallSetValue(k, v) ==
    /\ call = "none"
    /\ call' = "set"
    /\ key' = k
    /\ value' = v
    /\ LET r == set_value(doc, k, v)
       IN  /\ doc' = r.node
           /\ ret' = r.res
    /\ UNCHANGED <<doc0, got, cmdVars, procs>>

CallUnsetValue(k) ==
    /\ call = "none"
    /\ call' = "unset"
    /\ key' = k
    /\ LET r == unset_value(doc, k)
       IN  /\ doc' = r.node
           /\ ret' = r.res
    /\ UNCHANGED <<doc0, value, got, cmdVars, procs>>

GetAfter ==
    /\ call \in {"set", "unset"}
    /\ call' = IF call = "set" THEN "set_get" ELSE "unset_get"
    /\ got' = get_value(doc, key)
    /\ UNCHANGED <<doc, doc0, key, value, ret, cmdVars, procs>>

EngineNext ==
    \/ \E k \in Keys : CallGetValue(k)
    \/ \E k \in Keys, v \in Values : CallSetValue(k, v)
    \/ \E k \in Keys : CallUnsetValue(k)
    \/ GetAfter

EngineSpec == EngineInit /\ [][EngineNext]_vars

(***************************************************************************)
(* Two `ccp use` invocations at once.  No file is locked, so the steps of  *)
(* use_profile (the check, the read of the profile, the write of           *)
(* settings.json, the write of .current) of the two processes interleave;  *)
(* each read or write of one file is one step.                             *)
(***************************************************************************)
Procs == {1, 2}

\* the names given to the two invocations; no profile is named work
RaceNames == {"default", "other", "work"}

RaceInit ==
    /\ profiles_dir = TRUE /\ backups_dir = TRUE
    /\ profiles = [n \in {"default", "other"} |->
                       IF n = "default" THEN Sonnet ELSE Haiku]
    /\ current_file = Some(<<"default", "\n">>)
    /\ backups = EmptyFiles
    /\ settings \in {None, Some(Modified)}
    /\ now = 0
    /\ steps = 0
    /\ cmd = [op |-> "none"]
    /\ res = Ok(Unit)
    /\ doc = Null /\ doc0 = Null /\ key = <<>> /\ value = Null
    /\ call = "none" /\ ret = None /\ got = None
    /\ procs \in [Procs -> {[pc |-> "exists", name |-> n, data |-> Null] :
                                n \in RaceNames}]

\* if !pm.profile_exists(name) { bail!(...) }
UseExists(p) ==
    /\ procs[p].pc = "exists"
    /\ procs' = [procs EXCEPT ![p].pc =
                    IF profile_exists(FS, procs[p].name) THEN "load" ELSE "failed"]
    /\ UNCHANGED <<fsVars, now, steps, cmd, res, engineVars>>

\* let profile_data = pm.load_profile(name)?
UseLoad(p) ==
    /\ procs[p].pc = "load"
    /\ procs' = [procs EXCEPT ![p].pc = "save_settings",
                              ![p].data = load_profile(FS, procs[p].name)]
    /\ UNCHANGED <<fsVars, now, steps, cmd, res, engineVars>>

\* pm.save_settings(&profile_data)?
UseSaveSettings(p) ==
    /\ procs[p].pc = "save_settings"
    /\ settings' = save_settings(FS, procs[p].data).settings
    /\ procs' = [procs EXCEPT ![p].pc = "set_current"]
    /\ UNCHANGED <<profiles_dir, backups_dir, profiles, backups, current_file,
                   now, steps, cmd, res, engineVars>>

\* pm.set_current_profile(name)?
UseSetCurrent(p) ==
    /\ procs[p].pc = "set_current"
    /\ current_file' = set_current_profile(FS, procs[p].name).current
    /\ procs' = [procs EXCEPT ![p].pc = "done"]
    /\ UNCHANGED <<profiles_dir, backups_dir, profiles, backups, settings,
                   now, steps, cmd, res, engineVars>>

RaceNext ==
    \/ \E p \in Procs : UseExists(p)
    \/ \E p \in Procs : UseLoad(p)
    \/ \E p \in Procs : UseSaveSettings(p)
    \/ \E p \in Procs : UseSetCurrent(p)

RaceSpec == RaceInit /\ [][RaceNext]_vars

(***************************************************************************)
(* Properties of the path-value engine (checked under EngineSpec).        *)
(***************************************************************************)
Missing == [t |-> "missing"]

\* the node of document d at the end of the segment path segs, or Missing
RECURSIVE NodeAt(_, _)
NodeAt(d, segs) ==
    IF segs = <<>> THEN d
    ELSE IF d.t = "obj" /\ Head(segs) \in DOMAIN d.m
         THEN NodeAt(d.m[Head(segs)], Tail(segs))
         ELSE Missing

Prefix(segs, n) == SubSeq(segs, 1, n)

IsPrefixOf(p, q) == Len(p) <= Len(q) /\ Prefix(q, Len(p)) = p

\* an existing node that is not an object
NonObject(v) == v.t \notin {"obj", "missing"}

\* some node reached before the last segment (the root included) is a non-object
NonObjectBeforeLast(d, segs) ==
    \E n \in 0..(Len(segs) - 1) : NonObject(NodeAt(d, Prefix(segs, n)))

\* some intermediate segment (not the last) resolves to an existing non-object
NonObjectIntermediate(d, segs) ==
    \E n \in 1..(Len(segs) - 1) : NonObject(NodeAt(d, Prefix(segs, n)))

\* some segment is missing from the object reached so far
SegmentMissing(d, segs) ==
    \E n \in 1..Len(segs) :
        LET p == NodeAt(d, Prefix(segs, n - 1))
        IN  p.t = "obj" /\ segs[n] \notin DOMAIN p.m

TypeMismatch(r) ==
    /\ ~r.ok
    /\ r.msg \in {"Cannot set value: path is not an object",
                  "Cannot navigate: path is not an object"}

\* C1: when no node before the last segment of P is a non-object in D,
\* set_value(D, P, V) succeeds and a following get_value(D, P) returns V.
C1_SetGetRoundTrip ==
    (call \in {"set", "set_get"} /\ ~NonObjectBeforeLast(doc0, Split(key)))
        => /\ ret = Ok(Unit)
           /\ call = "set_get" => got = Some(value)

\* a set through a missing intermediate key, read back
C1_Witness ==
    /\ call = "set_get"
    /\ Len(Split(key)) = 2
    /\ NodeAt(doc0, Prefix(Split(key), 1)) = Missing
    /\ ~NonObjectBeforeLast(doc0, Split(key))
    /\ got = Some(value)

\* C2: set_value through an intermediate segment that holds a non-object
\* fails with TypeMismatch and that value is still stored unchanged.
C2_SetThroughNonObjectFails ==
    (call \in {"set", "set_get"} /\ NonObjectIntermediate(doc0, Split(key)))
        => /\ TypeMismatch(ret)
           /\ \A n \in 1..(Len(Split(key)) - 1) :
                 NonObject(NodeAt(doc0, Prefix(Split(key), n)))
                    => NodeAt(doc, Prefix(Split(key), n))
                         = NodeAt(doc0, Prefix(Split(key), n))

\* a set whose first segment holds a string
C2_Witness ==
    /\ call = "set"
    /\ Len(Split(key)) >= 2
    /\ NodeAt(doc0, Prefix(Split(key), 1)) = Str("x")
    /\ TypeMismatch(ret)

\* C3: unset_value returns false without error and leaves D unchanged when
\* the final key or a prefix of P is absent or an intermediate node is not
\* an object; no intermediate object is created.
C3_UnsetAbsentIsNoop ==
    (/\ call \in {"unset", "unset_get"}
     /\ \/ \E n \in 1..Len(Split(key)) : NodeAt(doc0, Prefix(Split(key), n)) = Missing
        \/ NonObjectBeforeLast(doc0, Split(key)))
        => /\ ret = Ok(FALSE)
           /\ doc = doc0

\* an unset below an existing object whose final key is absent
C3_Witness ==
    /\ call = "unset"
    /\ Len(Split(key)) = 2
    /\ NodeAt(doc0, Prefix(Split(key), 1)).t = "obj"
    /\ NodeAt(doc0, Split(key)) = Missing
    /\ ret = Ok(FALSE)

\* C4: unset_value returns true exactly when get_value found P before the
\* call, and after a true unset a following get_value(D, P) is not found.
C4_UnsetThenGet ==
    call \in {"unset", "unset_get"}
        => /\ ret = Ok(get_value(doc0, key).some)
           /\ (call = "unset_get" /\ ret = Ok(TRUE)) => got = None

\* a nested key removed and read back
C4_Witness ==
    /\ call = "unset_get"
    /\ Len(Split(key)) = 2
    /\ ret = Ok(TRUE)
    /\ got = None

\* C5: get_value is not found exactly when a segment is missing from the
\* object reached so far or a node before the last segment is a non-object;
\* otherwise it is the value stored at P, a stored null included.
C5_GetValue ==
    call = "get"
        => /\ (ret = None) <=> (\/ SegmentMissing(doc0, Split(key))
                                \/ NonObjectBeforeLast(doc0, Split(key)))
           /\ ret # None => ret = Some(NodeAt(doc0, Split(key)))
           /\ doc = doc0

\* a nested key holding null is found
C5_Witness ==
    /\ call = "get"
    /\ Len(Split(key)) = 2
    /\ NodeAt(doc0, Split(key)) = Null
    /\ ret = Some(Null)

\* the segments of every key: get_value(d, q) is GetLoop(d, Segments[q], 1)
Segments == [k \in Keys |-> Split(k)]

\* C6: a successful set_value and a removing unset_value leave get_value
\* unchanged for every path Q that is not a prefix of P and does not have P
\* as a prefix.
C6_FrameOutsidePath ==
    (\/ call = "set" /\ ret.ok
     \/ call = "unset" /\ ret = Ok(TRUE))
        => LET p == Split(key)
           IN  \A q \in Keys :
                  LET s == Segments[q]
                  IN  (~IsPrefixOf(s, p) /\ ~IsPrefixOf(p, s))
                         => GetLoop(doc, s, 1) = GetLoop(doc0, s, 1)

\* a set below an existing object that has another key
C6_Witness ==
    /\ call = "set"
    /\ ret.ok
    /\ Len(Split(key)) = 2
    /\ NodeAt(doc0, Prefix(Split(key), 1)).t = "obj"
    /\ \E q \in Keys :
          /\ Len(Split(q)) = 2
          /\ Prefix(Split(q), 1) = Prefix(Split(key), 1)
          /\ q # key
          /\ get_value(doc0, q) # None
          /\ get_value(doc, q) = get_value(doc0, q)

(***************************************************************************)
(* Properties of the commands (checked under Spec).                       *)
(***************************************************************************)
\* this step ran the command op
Ran(op) == steps' = steps + 1 /\ cmd'.op = op

AlreadyExists(r) ==
    /\ ~r.ok
    /\ r.msg \in {"Profile '{}' already exists",
                  "Destination profile '{}' already exists",
                  "Profile '{}' already exists. Delete it first or use a different name."}

NotFound(r) ==
    /\ ~r.ok
    /\ r.msg \in {"Profile '{}' does not exist",
                  "Profile '{}' does not exist. Use 'ccp list' to see available profiles.",
                  "Source profile '{}' does not exist",
                  "Backup '{}' not found",
                  "Backup '{}' not found and no backups available"}

\* the name get_current_profile reads from the pointer file
CurrentName == get_current_profile(FS)

\* every profile that existed keeps its content, except possibly those in S
ProfilesKeptExcept(S) ==
    \A n \in (DOMAIN profiles) \ S : n \in DOMAIN profiles' /\ profiles'[n] = profiles[n]

C8_CreateContent ==
    [][ (/\ Ran("create")
         /\ cmd'.name \notin DOMAIN profiles
         /\ cmd'.from.some => cmd'.from.v \in DOMAIN profiles)
            => /\ res' = Ok(Unit)
               /\ DOMAIN profiles' = (DOMAIN profiles) \cup {cmd'.name}
               /\ profiles'[cmd'.name] =
                     IF cmd'.from.some THEN profiles[cmd'.from.v]
                     ELSE IF settings # None THEN settings.v
                     ELSE SchemaDoc
               /\ ProfilesKeptExcept({})
               /\ UNCHANGED <<settings, current_file>>
      ]_vars

\* a profile created from settings that are not the "$schema" object
C8_Witness ==
    /\ cmd.op = "create"
    /\ res = Ok(Unit)
    /\ cmd.from = None
    /\ settings # None
    /\ settings.v # SchemaDoc
    /\ profiles[cmd.name] = settings.v
    /\ Cardinality(DOMAIN profiles) >= 2

\* C9: rename of an existing profile to a fresh name removes the old name,
\* gives the new name the old content, and moves the pointer to the new name
\* when it named the old one and leaves it alone otherwise; a pointer that
\* named an existing profile still names one.
C9_Rename ==
    [][ (/\ Ran("rename")
         /\ cmd'.old \in DOMAIN profiles
         /\ cmd'.new \notin DOMAIN profiles)
            => /\ res' = Ok(Unit)
               /\ cmd'.old \notin DOMAIN profiles'
               /\ cmd'.new \in DOMAIN profiles'
               /\ profiles'[cmd'.new] = profiles[cmd'.old]
               /\ IF CurrentName = Some(cmd'.old)
                  THEN CurrentName' = Some(cmd'.new)
                  ELSE current_file' = current_file
               /\ (CurrentName.some /\ CurrentName.v \in DOMAIN profiles)
                     => CurrentName'.v \in DOMAIN profiles'
      ]_vars

\* the current profile was renamed and the pointer followed
C9_Witness ==
    /\ cmd.op = "rename"
    /\ res = Ok(Unit)
    /\ CurrentName = Some(cmd.new)
    /\ cmd.new \in DOMAIN profiles
    /\ cmd.old \notin DOMAIN profiles

\* C10: a restore that finds a settings file saves the settings under a
\* backup name that no existing backup has, so that every existing backup
\* keeps its content, and the new backup holds the settings as they were
\* before the restore.
C10_RestoreSnapshotIsFresh ==
    [][ (Ran("restore") /\ res'.ok /\ settings # None)
            => /\ \E n \in (DOMAIN backups') \ (DOMAIN backups) :
                     backups'[n] = settings.v
               /\ \A m \in DOMAIN backups :
                     m \in DOMAIN backups' /\ backups'[m] = backups[m]
      ]_vars

\* C11: use of an existing profile makes the settings equal to that profile's
\* content and the pointer read back as its name; the profile, every other
\* profile and the backups are unchanged.
C11_UseAppliesProfile ==
    [][ (Ran("use") /\ cmd'.name \in DOMAIN profiles)
            => /\ res' = Ok(Unit)
               /\ settings' = Some(profiles[cmd'.name])
               /\ CurrentName' = Some(cmd'.name)
               /\ profiles' = profiles
               /\ backups' = backups
      ]_vars

\* a profile other than the current one was applied over different settings
C11_Witness ==
    /\ cmd.op = "use"
    /\ res = Ok(Unit)
    /\ cmd.name = "work"
    /\ {"work", "default"} \subseteq DOMAIN profiles
    /\ CurrentName = Some("work")
    /\ settings = Some(profiles["work"])
    /\ settings # Some(profiles["default"])

\* C12: use of a missing profile fails with NotFound and leaves the settings,
\* the pointer, the profiles and the backups unchanged.
C12_UseMissingFails ==
    [][ (Ran("use") /\ cmd'.name \notin DOMAIN profiles)
            => /\ NotFound(res')
               /\ UNCHANGED fsVars
      ]_vars

\* use of a missing profile was refused in a home that has a pointer
C12_Witness ==
    /\ cmd.op = "use"
    /\ cmd.name \notin DOMAIN profiles
    /\ NotFound(res)
    /\ CurrentName = Some("default")
    /\ settings # None

\* the profile a set, get or unset with the arguments c works on
Target(c) ==
    IF c.profile.some THEN c.profile.v
    ELSE IF CurrentName.some THEN CurrentName.v
    ELSE "default"

\* C13: a successful set, or an unset that removes a key, rewrites the
\* settings exactly when its target profile is the one the pointer names, and
\* then the settings equal the target's new content; otherwise (a --profile
\* that is not the current one, or no pointer file and the target defaulting
\* to "default") the settings are unchanged.
C13_SettingsFollowCurrentOnly ==
    [][ (/\ Ran("set") \/ Ran("unset")
         /\ res' = Ok(Unit)
         /\ Target(cmd') \in DOMAIN profiles
         /\ Ran("unset") =>
                NodeAt(profiles[Target(cmd')], Split(cmd'.key)) # Missing)
            => /\ Target(cmd') \in DOMAIN profiles'
               /\ IF CurrentName = Some(Target(cmd'))
                  THEN settings' = Some(profiles'[Target(cmd')])
                  ELSE settings' = settings
      ]_vars

\* without a pointer file a set on the defaulted target "default" changed the
\* profile and not the settings
C13_Witness ==
    /\ cmd.op = "set"
    /\ res = Ok(Unit)
    /\ cmd.profile = None
    /\ current_file = None
    /\ "default" \in DOMAIN profiles
    /\ NodeAt(profiles["default"], Split(cmd.key)) = Str("opus-4")
    /\ settings # Some(profiles["default"])

\* the profile whose content a step writes as settings.json, if it writes one
AppliedProfile ==
    IF Ran("use") /\ res' = Ok(Unit)
    THEN Some(cmd'.name)
    ELSE IF Ran("restore") /\ res' = Ok(Unit) /\ cmd'.backup \notin DOMAIN backups
    THEN Some(cmd'.backup)
    ELSE IF (Ran("set") \/ Ran("unset")) /\ res' = Ok(Unit) /\ settings' # settings
    THEN Some(Target(cmd'))
    ELSE IF (Ran("delete") \/ Ran("init")) /\ res' = Ok(Unit) /\ settings' # settings
    THEN Some("default")
    ELSE None

\* C14: the pointer, when present, names the profile whose content was most
\* recently written as the settings: a step that writes a profile's content
\* as settings.json leaves the pointer naming that profile.
C14_PointerNamesLastApplied ==
    [][ (AppliedProfile.some /\ current_file' # None)
            => CurrentName' = AppliedProfile ]_vars

\* a step saves a backup under the name n: backup under the name given or
\* generated, restore under the name of its snapshot
SavesBackup(n) ==
    \/ /\ Ran("backup")
       /\ res' = Ok(Unit)
       /\ n = (IF cmd'.name.some THEN cmd'.name.v ELSE FormatTime("backup", now))
    \/ /\ Ran("restore")
       /\ res' = Ok(Unit)
       /\ settings # None
       /\ n = FormatTime("pre-restore", now)

\* C15: no step removes a backup, and the content of an existing backup
\* changes only in a step that saves a backup under that same name.
C15_BackupsKept ==
    [][ /\ DOMAIN backups \subseteq DOMAIN backups'
        /\ \A n \in DOMAIN backups :
              backups'[n] # backups[n] => SavesBackup(n)
      ]_vars

\* a restore from a backup left that backup next to its snapshot
C15_Witness ==
    /\ cmd.op = "restore"
    /\ res = Ok(Unit)
    /\ cmd.backup # FormatTime("pre-restore", now)
    /\ {cmd.backup, FormatTime("pre-restore", now)} \subseteq DOMAIN backups
    /\ settings = Some(backups[cmd.backup])

\* C16: the content of an existing profile is changed only by set and unset
\* (and the interactive configure) on that profile: a step of any other
\* command leaves every profile that exists before and after it with the
\* content it had, and set and unset leave every profile but their target so.
C16_OnlySetUnsetChangeContent ==
    [][ \A n \in DOMAIN profiles \cap DOMAIN profiles' :
            profiles'[n] # profiles[n]
                => /\ Ran("set") \/ Ran("unset")
                   /\ n = Target(cmd')
      ]_vars

\* C17: backup and restore round trip, step by step: a successful backup
\* stores the settings of that moment under its name; what is stored under a
\* name stays as it is through every step that saves no backup under that
\* name; and restore of a name that has a backup (of valid JSON, as every
\* backup saved by the program is) succeeds and leaves the settings equal to
\* what is stored there, also when a profile has the name.
C17_BackupRestoreRoundTrip ==
    [][ /\ (Ran("backup") /\ res' = Ok(Unit))
            => \E n \in DOMAIN backups' :
                   /\ SavesBackup(n)
                   /\ Some(backups'[n]) = settings
        /\ \A n \in DOMAIN backups :
              ~SavesBackup(n)
                  => n \in DOMAIN backups' /\ backups'[n] = backups[n]
        /\ (/\ Ran("restore")
            /\ cmd'.backup \in DOMAIN backups
            /\ backups[cmd'.backup] # NotJson)
            => /\ res' = Ok(Unit)
               /\ settings' = Some(backups[cmd'.backup])
      ]_vars

\* a restore brought back the settings stored under a name that a profile of
\* other content has too, after the settings had changed
C17_Witness ==
    /\ cmd.op = "restore"
    /\ res = Ok(Unit)
    /\ cmd.backup \in DOMAIN backups \cap DOMAIN profiles
    /\ cmd.backup # FormatTime("pre-restore", now)
    /\ settings = Some(backups[cmd.backup])
    /\ settings # Some(profiles[cmd.backup])
    /\ FormatTime("pre-restore", now) \in DOMAIN backups
    /\ settings # Some(backups[FormatTime("pre-restore", now)])

\* the names a sequence holds
Range(l) == {l[i] : i \in 1..Len(l)}

\* C18: list_profiles returns the names of the existing profiles and nothing
\* else, in ascending order without duplicates; the name of the pointer file
\* is never in it; it is empty when the profiles directory does not exist;
\* and a name is in it exactly when profile_exists holds for the name.
C18_ListProfiles ==
    LET l == list_profiles(FS)
    IN  /\ Range(l) = DOMAIN profiles
        /\ \A i, j \in 1..Len(l) : i < j => Rank(l[i]) < Rank(l[j])
        /\ ".current" \notin Range(l)
        /\ ~profiles_dir => l = <<>>
        /\ \A n \in Names \cup {".current"} :
              n \in Range(l) <=> profile_exists(FS, n)

\* three profiles and the pointer file are in the directory after a create
C18_Witness ==
    /\ cmd.op = "create"
    /\ res = Ok(Unit)
    /\ current_file # None
    /\ Len(list_profiles(FS)) = 3
    /\ Cardinality(read_dir(FS)) = 4

\* C19: get_current_profile returns none exactly when there is no pointer
\* file, and does not look whether the profile exists: a delete of the
\* profile the pointer names that cannot switch to "default" (the profile is
\* "default", or there is no "default") leaves the pointer reading the stale
\* name, and a set, get or unset without --profile under a stale pointer fails
\* with NotFound and changes nothing.
C19_StalePointer ==
    [][ /\ (current_file' = None) <=> (CurrentName' = None)
        /\ (/\ Ran("delete")
            /\ cmd'.name \in DOMAIN profiles
            /\ cmd'.name \notin DOMAIN profiles'
            /\ CurrentName = Some(cmd'.name)
            /\ cmd'.name = "default" \/ "default" \notin DOMAIN profiles)
                => /\ CurrentName' = Some(cmd'.name)
                   /\ settings' = settings
        /\ (/\ Ran("set") \/ Ran("get") \/ Ran("unset")
            /\ cmd'.profile = None
            /\ CurrentName.some
            /\ CurrentName.v \notin DOMAIN profiles)
                => /\ NotFound(res')
                   /\ UNCHANGED fsVars
      ]_vars

\* a get without --profile failed under a stale pointer although another
\* profile exists
C19_Witness ==
    /\ cmd.op = "get"
    /\ cmd.profile = None
    /\ NotFound(res)
    /\ CurrentName.some
    /\ CurrentName.v \notin DOMAIN profiles
    /\ DOMAIN profiles # {}

\* C20: copy of an existing source to a free destination creates the
\* destination with the source's content and leaves the source, every other
\* profile, the settings, the pointer and the backups as they were; copy of a
\* missing source fails with NotFound and creates nothing.
C20_Copy ==
    [][ /\ (/\ Ran("copy")
            /\ cmd'.src \in DOMAIN profiles
            /\ cmd'.dst \notin DOMAIN profiles)
                => /\ res' = Ok(Unit)
                   /\ DOMAIN profiles' = DOMAIN profiles \cup {cmd'.dst}
                   /\ profiles'[cmd'.dst] = profiles[cmd'.src]
                   /\ \A n \in DOMAIN profiles : profiles'[n] = profiles[n]
                   /\ UNCHANGED <<settings, current_file, backups>>
        /\ (Ran("copy") /\ cmd'.src \notin DOMAIN profiles)
                => /\ NotFound(res')
                   /\ UNCHANGED fsVars
      ]_vars

\* a copy made a second profile of the source's content, which the settings
\* do not have
C20_Witness ==
    /\ cmd.op = "copy"
    /\ res = Ok(Unit)
    /\ {cmd.src, cmd.dst} \subseteq DOMAIN profiles
    /\ cmd.src # cmd.dst
    /\ profiles[cmd.dst] = profiles[cmd.src]
    /\ settings # Some(profiles[cmd.dst])
    /\ current_file # None

\* C21: a delete that is carried out (forced, or confirmed at the prompt) of
\* the profile the pointer names, when that profile is not "default" and a
\* "default" exists, applies "default" and removes the file: the profile is
\* gone, the pointer reads "default" and the settings equal the default
\* profile's content.  A delete of a profile that is not the current one
\* leaves the pointer and the settings unchanged, and a delete of "default"
\* without --force fails and leaves the profiles as they were.
C21_Delete ==
    [][ /\ (/\ Ran("delete")
            /\ cmd'.force \/ cmd'.confirm
            /\ {cmd'.name, "default"} \subseteq DOMAIN profiles
            /\ cmd'.name # "default"
            /\ CurrentName = Some(cmd'.name))
                => /\ res' = Ok(Unit)
                   /\ DOMAIN profiles' = DOMAIN profiles \ {cmd'.name}
                   /\ CurrentName' = Some("default")
                   /\ settings' = Some(profiles["default"])
                   /\ profiles'["default"] = profiles["default"]
        /\ (Ran("delete") /\ CurrentName # Some(cmd'.name))
                => UNCHANGED <<settings, current_file>>
        /\ (Ran("delete") /\ cmd'.name = "default" /\ ~cmd'.force)
                => /\ ~res'.ok
                   /\ profiles' = profiles
      ]_vars

\* after rename default to work (the pointer follows) and create default from
\* the settings, the delete of work switched to the new default
C21_Witness ==
    /\ cmd.op = "delete"
    /\ cmd.name = "work"
    /\ res = Ok(Unit)
    /\ steps = 3
    /\ "work" \notin DOMAIN profiles
    /\ "default" \in DOMAIN profiles
    /\ profiles["default"] = Modified
    /\ current_file = Some(<<"default">>)
    /\ settings = Some(Modified)

\* C22: whenever set_value(D, P, V) returns an error, D is the document it
\* was before the call, with no object created for a missing intermediate
\* key left in it, whatever D (a non-object root included) and P are.
C22_FailedSetLeavesDoc ==
    (call \in {"set", "set_get"} /\ ~ret.ok) => doc = doc0

\* a set over three segments failed in an object root at a string
C22_Witness ==
    /\ call = "set"
    /\ TypeMismatch(ret)
    /\ IsObject(doc0)
    /\ Len(Split(key)) = 3
    /\ NodeAt(doc0, Prefix(Split(key), 2)) = Missing
    /\ doc = doc0

\* the name given to restore is neither a backup nor a profile
UnknownName(n) == n \notin DOMAIN backups /\ n \notin DOMAIN profiles

\* the name given to restore is a backup whose content is not valid JSON
UnparseableBackup(n) == n \in DOMAIN backups /\ backups[n] = NotJson

ParseError(r) == ~r.ok /\ r.msg = "Failed to parse JSON from {}"

\* C23 as stated: restore of a name that is neither a backup nor a profile,
\* and restore of a backup that cannot be parsed as JSON, fail with NotFound
\* and change nothing: the settings are unchanged and no snapshot is created.
C23_RestoreFailsNotFound ==
    [][ (/\ Ran("restore")
         /\ UnknownName(cmd'.backup) \/ UnparseableBackup(cmd'.backup))
            => /\ NotFound(res')
               /\ UNCHANGED fsVars
      ]_vars

\* C23 amended: restore of a name that is neither a backup nor a profile
\* fails with NotFound, restore of a backup that cannot be parsed as JSON
\* fails with the parse error, and both change nothing: the settings are
\* unchanged and no snapshot is created.
C23_RestoreFailsUnchanged ==
    [][ /\ (Ran("restore") /\ UnknownName(cmd'.backup))
            => /\ NotFound(res')
               /\ UNCHANGED fsVars
        /\ (Ran("restore") /\ UnparseableBackup(cmd'.backup))
            => /\ ParseError(res')
               /\ UNCHANGED fsVars
      ]_vars

\* a restore of the unparseable backup failed over existing settings, after
\* another backup had been saved
C23_Witness ==
    /\ cmd.op = "restore"
    /\ ParseError(res)
    /\ UnparseableBackup(cmd.backup)
    /\ settings # None
    /\ Cardinality(DOMAIN backups) = 2
    /\ FormatTime("pre-restore", now) \notin DOMAIN backups

\* both invocations of `ccp use` have run to their end, for two different
\* existing profiles
BothUsed ==
    /\ DOMAIN procs = Procs
    /\ \A p \in Procs : procs[p].pc = "done"
    /\ procs[1].name # procs[2].name

\* C24 as stated: once two concurrent `use` of two different existing
\* profiles have both completed, the settings equal the content of the
\* profile the pointer names.
C24_RaceSettingsMatchPointer ==
    BothUsed => settings = Some(profiles[CurrentName.v])

\* C24 amended: the last write wins for each file on its own: once both have
\* completed, the settings equal the content of one of the two profiles and
\* the pointer names one of the two profiles, not necessarily the same one.
C24_RaceLastWriteWinsPerFile ==
    BothUsed
        => \E p \in Procs, q \in Procs :
               /\ settings = Some(profiles[procs[p].name])
               /\ CurrentName = Some(procs[q].name)

\* both have completed and the settings hold the profile the pointer does
\* not name
C24_Witness ==
    /\ BothUsed
    /\ settings = Some(profiles[procs[1].name])
    /\ CurrentName = Some(procs[2].name)

====
